---- MODULE Spec2Model ----
(***************************************************************************)
(* Repeater node of entanglement_swap_sim (src/RepeaterProtocol.py):       *)
(* the per-slot lifecycle of MemoryAccess, the arrival routing of          *)
(* MemoryRouting, the pairing loop of RepeaterProtocol.run and the sink    *)
(* of SimulationProtocol.run, as one discrete-event state machine; the     *)
(* queue-based repeater of src/entanglement_swap_sim.py and the quantum    *)
(* source of src/qsource.py are modelled beside it.                        *)
(* Every action is one event handler of the simulation: a clock tick, a    *)
(* port input, the end of a quantum program, a STORED signal.              *)
(***************************************************************************)
EXTENDS Integers, Sequences, FiniteSets, TLC

\* ---------------------------------------------------------------- bounds
MaxSlots    == 2    \* memory slots per channel: 1..MaxSlots
MaxPeriod   == 2    \* reset_period_cycles: 1..MaxPeriod
MaxDuration == 1    \* reset_duration_cycles: 1..MaxDuration
MaxTicks    == 5    \* clock ticks observed
MaxPayloads == 3    \* non-null arrivals observed
MaxInstants == 3    \* instants with scripted arrivals in the mode without memory
MaxTriggers == 3    \* triggers a QSource receives

\* ------------------------------------------------------------- constants
Chan == {"A", "B"}

\* Python None: as a slot (no TARGET / no FILLED slot found, pos_A, pos_B)
\* and as a qubit id (empty memory position).
None    == -1
NoQubit == 0

\* Contents of a memory position.  "default" is the h0 state put by
\* _reset_state, "stored" a payload captured by a detected storage
\* transform, "undetected" what MemoryBehavior leaves when detected = False
\* (CZ and X measurement done, H correction skipped), "none" a popped slot.
EmptyPos      == [kind |-> "none", id |-> NoQubit]
DefaultState  == [kind |-> "default", id |-> NoQubit]
Stored(q)     == [kind |-> "stored", id |-> q]
Undetected(q) == [kind |-> "undetected", id |-> q]
\* A qubit popped from a staging position, untouched by any program.
Raw(q)        == [kind |-> "raw", id |-> q]

\* np.random.random_integers(1, 100): representatives of both sides of every
\* configured probability.
Draws == {1, 50, 51, 100}

Probabilities == {0, 50, 100}

\* The arrival plan of a run whose sources are not scripted: a qubit may
\* arrive on any channel at any time.
Unplanned == {<<"any", 0>>}

VARIABLES
  slots_A, slots_B,            \* RepeaterProtocol.slots_A / slots_B
  probability_detection,       \* mem_config['probability_detection']
  reset_period_cycles,         \* mem_config['reset_period_cycles']
  reset_duration_cycles,       \* mem_config['reset_duration_cycles']
  status,                      \* mem_positions[slot].properties['status']
  reset_timer,                 \* MemoryAccess.reset_timer[slot]
  reset_trigger_timer,         \* MemoryAccess.reset_trigger_timer[slot]
  content,                     \* qubit held by memory position slot
  staging,                     \* qubit id at position storage_idx of a channel
  pc,                          \* where each MemoryRouting.run is suspended
  target_slot,                 \* MemoryRouting.run local target_slot
  detected,                    \* MemoryRouting.run local detected
  incoming,                    \* qubit the running program was started on
  stored_signal,               \* channels whose STORED signal is not handled yet
  results,                     \* results received by the sink, in order
  pairedSlots,                 \* history: the slots each result was popped from
  timedOut,                    \* history: payloads that were FILLED at a timeout
  arrival_plan,                \* qubits still to arrive, as <<channel, time>>
  now,                         \* clock ticks so far
  arrivals,                    \* number of qubits delivered so far
  qubits_A, qubits_B,          \* queue-based variant: RepeaterProtocol.qubits_A / qubits_B
  success_result,              \* queue-based variant: result of a RouteQubits SUCCESS signal not handled yet
  repeater_pc,                 \* queue-based variant: where RepeaterProtocol.run is suspended
  qs_status,                   \* QSource._status
  busy_until,                  \* QSource._busy_until
  pulse_events,                \* times of the scheduled NEWPULSE events, in scheduling order
  pulse_count,                 \* QSource._pulse_count
  emitted,                     \* number of pulses put on the output ports
  sim_time,                    \* ns.sim_time() of the source's simulation
  trigger_error,               \* the last trigger raised QSourceTriggerError
  trigger_count                \* triggers received so far

config == <<slots_A, slots_B, probability_detection, reset_period_cycles,
            reset_duration_cycles>>
memory == <<status, reset_timer, reset_trigger_timer, content>>
router == <<pc, target_slot, detected, incoming>>
history == <<pairedSlots, timedOut>>
queues == <<qubits_A, qubits_B, success_result, repeater_pc>>
source == <<qs_status, busy_until, pulse_events, pulse_count, emitted, sim_time,
            trigger_error, trigger_count>>
vars == <<config, memory, staging, router, stored_signal, results, history,
          arrival_plan, now, arrivals, queues, source>>

\* QSource.__init__ with its default status: the source is OFF, is not
\* generating a pulse and has scheduled nothing.
SourceConstructed ==
  /\ qs_status = "OFF"
  /\ busy_until = -1
  /\ pulse_events = <<>>
  /\ pulse_count = 0
  /\ emitted = 0
  /\ sim_time = 0
  /\ trigger_error = FALSE
  /\ trigger_count = 0

\* ------------------------------------------------------------ slot layout
Range(s) == {s[i] : i \in 1..Len(s)}

\* Slot ids of channel A and channel B for n slots per channel starting at
\* id base: A gets base..base+n-1, B the n ids after them.
SlotLayout(base, n) ==
  [A |-> [i \in 1..n |-> base + i - 1], B |-> [i \in 1..n |-> base + n + i - 1]]

SlotsOf(c) == IF c = "A" THEN slots_A ELSE slots_B
AllSlots   == Range(slots_A) \cup Range(slots_B)

\* First slot of a sequence of slots that satisfies a status, or None.
FirstWithStatus(st, slots, wanted) ==
  IF \E i \in 1..Len(slots) : st[slots[i]] = wanted
  THEN slots[CHOOSE i \in 1..Len(slots) :
               /\ st[slots[i]] = wanted
               /\ \A j \in 1..(i-1) : st[slots[j]] # wanted]
  ELSE None

\* ------------------------------------------------------- MemoryAccess.run
\* The four per-slot fields as one record, so that the loop over the slots
\* can be written as a fold.
Mem == [status |-> status, reset_timer |-> reset_timer,
        reset_trigger_timer |-> reset_trigger_timer, content |-> content]

reset_state(m, slot) ==
  [m EXCEPT !.content[slot] = DefaultState, !.status[slot] = "IDLE"]

\* Variant without the scan for an existing TARGET.
get_new_target_unchecked(m, slots) ==
  IF FirstWithStatus(m.status, slots, "IDLE") # None
  THEN [m EXCEPT !.status[FirstWithStatus(m.status, slots, "IDLE")] = "TARGET"]
  ELSE m

\* Variant that never promotes a slot.
get_new_target_skipped(m, slots) == m

get_new_target(m, slots) ==
  IF FirstWithStatus(m.status, slots, "TARGET") # None THEN m
  ELSE IF FirstWithStatus(m.status, slots, "IDLE") # None
       THEN [m EXCEPT !.status[FirstWithStatus(m.status, slots, "IDLE")] = "TARGET"]
       ELSE m

\* Variant without the FILLED branch: a FILLED slot is left alone by the tick.
process_slot_keep_filled(m, slot) ==
  IF m.status[slot] = "RESET"
  THEN IF m.reset_timer[slot] = 0
       THEN [reset_state(m, slot) EXCEPT !.reset_timer[slot] = reset_duration_cycles]
       ELSE [m EXCEPT !.reset_timer[slot] = @ - 1]
  ELSE IF m.status[slot] = "FILLED" THEN m
  ELSE IF m.reset_trigger_timer[slot] = 0
       THEN [m EXCEPT !.status[slot] = "RESET",
                      !.reset_trigger_timer[slot] = reset_period_cycles]
       ELSE [m EXCEPT !.reset_trigger_timer[slot] = @ - 1]

\* Variant that forces RESET one tick early, when the trigger timer is at 1.
process_slot_eager(m, slot) ==
  IF m.status[slot] = "RESET"
  THEN IF m.reset_timer[slot] = 0
       THEN [reset_state(m, slot) EXCEPT !.reset_timer[slot] = reset_duration_cycles]
       ELSE [m EXCEPT !.reset_timer[slot] = @ - 1]
  ELSE IF m.reset_trigger_timer[slot] <= 1
       THEN [m EXCEPT !.status[slot] = "RESET",
                      !.reset_trigger_timer[slot] = reset_period_cycles]
       ELSE [m EXCEPT !.reset_trigger_timer[slot] = @ - 1]

\* Variant whose reset never ends: the reset timer is reloaded and the slot
\* stays in RESET.
process_slot_stuck(m, slot) ==
  IF m.status[slot] = "RESET"
  THEN IF m.reset_timer[slot] = 0
       THEN [m EXCEPT !.reset_timer[slot] = reset_duration_cycles]
       ELSE [m EXCEPT !.reset_timer[slot] = @ - 1]
  ELSE IF m.reset_trigger_timer[slot] = 0
       THEN [m EXCEPT !.status[slot] = "RESET",
                      !.reset_trigger_timer[slot] = reset_period_cycles]
       ELSE [m EXCEPT !.reset_trigger_timer[slot] = @ - 1]

\* Body of "for slot in self.slots" up to the call of _get_new_target.
process_slot(m, slot) ==
  IF m.status[slot] = "RESET"
  THEN IF m.reset_timer[slot] = 0
       THEN [reset_state(m, slot) EXCEPT !.reset_timer[slot] = reset_duration_cycles]
       ELSE [m EXCEPT !.reset_timer[slot] = @ - 1]
  ELSE IF m.reset_trigger_timer[slot] = 0
       THEN [m EXCEPT !.status[slot] = "RESET",
                      !.reset_trigger_timer[slot] = reset_period_cycles]
       ELSE [m EXCEPT !.reset_trigger_timer[slot] = @ - 1]

\* The for loop: _get_new_target is called inside it, after every slot.
RECURSIVE tick_slots(_, _, _)
tick_slots(m, slots, i) ==
  IF i > Len(slots) THEN m
  ELSE tick_slots(get_new_target(process_slot(m, slots[i]), slots), slots, i + 1)

\* One clock tick: the MemoryAccess of channel A, then that of channel B.
AfterTick == tick_slots(tick_slots(Mem, slots_A, 1), slots_B, 1)

\* Payloads of the slots this tick forces from FILLED to RESET.
TimedOutNow ==
  {content[s].id : s \in {t \in AllSlots : /\ status[t] = "FILLED"
                                           /\ reset_trigger_timer[t] = 0}}

Tick ==
  /\ now < MaxTicks
  /\ now' = now + 1
  /\ status' = AfterTick.status
  /\ reset_timer' = AfterTick.reset_timer
  /\ reset_trigger_timer' = AfterTick.reset_trigger_timer
  /\ content' = AfterTick.content
  /\ timedOut' = timedOut \cup TimedOutNow
  /\ UNCHANGED <<config, staging, router, stored_signal, results, pairedSlots,
                 arrivals, arrival_plan>>
  /\ UNCHANGED <<queues, source>>

\* ------------------------------------------------------ MemoryRouting.run
get_target_slot(c) == FirstWithStatus(status, SlotsOf(c), "TARGET")

\* Variant of a router that never finds the processor busy.
qmemory_busy_never == FALSE

\* QuantumProcessor.busy: a program is executing on the node's processor.
qmemory_busy == \E c \in Chan : pc[c] = "program"

\* Variant that does not look whether the staging position holds a qubit.
router_wake_unchecked(c, st) ==
  IF pc[c] = "await" /\ get_target_slot(c) # None
  THEN \E r \in Draws :
         /\ detected' = [detected EXCEPT ![c] = (r <= probability_detection)]
         /\ target_slot' = [target_slot EXCEPT ![c] = get_target_slot(c)]
         /\ IF qmemory_busy
            THEN /\ pc' = [pc EXCEPT ![c] = "busy_wait"]
                 /\ UNCHANGED incoming
            ELSE /\ pc' = [pc EXCEPT ![c] = "program"]
                 /\ incoming' = [incoming EXCEPT ![c] = st]
  ELSE UNCHANGED router

\* The router of channel c is woken by a port input with the staging
\* position holding qubit id st (NoQubit when empty).
router_wake(c, st) ==
  IF pc[c] = "await" /\ st # NoQubit /\ get_target_slot(c) # None
  THEN \E r \in Draws :
         /\ detected' = [detected EXCEPT ![c] = (r <= probability_detection)]
         /\ target_slot' = [target_slot EXCEPT ![c] = get_target_slot(c)]
         /\ IF qmemory_busy
            THEN /\ pc' = [pc EXCEPT ![c] = "busy_wait"]
                 /\ UNCHANGED incoming
            ELSE /\ pc' = [pc EXCEPT ![c] = "program"]
                 /\ incoming' = [incoming EXCEPT ![c] = st]
  ELSE UNCHANGED router

\* A qubit arrives on the port of channel c and is placed on storage_idx.
\* Qubits are numbered in order of arrival.  A scripted run ends with its
\* plan, an unscripted one after MaxPayloads qubits.
Arrive(c) ==
  /\ arrival_plan = Unplanned => arrivals < MaxPayloads
  /\ arrival_plan # Unplanned => <<c, now>> \in arrival_plan
  /\ arrival_plan' = IF arrival_plan = Unplanned THEN arrival_plan
                      ELSE arrival_plan \ {<<c, now>>}
  /\ arrivals' = arrivals + 1
  /\ staging' = [staging EXCEPT ![c] = arrivals + 1]
  /\ router_wake(c, arrivals + 1)
  /\ UNCHANGED <<config, memory, stored_signal, results, history, now>>
  /\ UNCHANGED <<queues, source>>

\* A port input that carries no qubit (lost upstream).
ArriveNull(c) ==
  /\ router_wake(c, staging[c])
  /\ UNCHANGED <<config, memory, staging, stored_signal, results, history,
                 now, arrivals, arrival_plan>>
  /\ UNCHANGED <<queues, source>>

\* The count of dropped arrivals a MemoryRouting exposes.  Its run loop has
\* no else branch for a missing target and no attribute that counts, so the
\* count an observer can read stays at its initial value.
drop_counter == 0

\* MemoryBehavior.program on [storage_idx, target_slot].
MemoryBehavior(det, q, old) ==
  IF det /\ old.kind = "default" THEN Stored(q) ELSE Undetected(q)

\* The running program ends: its router pops the staging position, flags the
\* slot FILLED and signals STORED; a router suspended on the busy processor
\* is resumed by the same event and starts its own program.  The locals of
\* the router that goes back to its await are dead and are cleared.
ProgramDone(c) ==
  /\ pc[c] = "program"
  /\ content' = [content EXCEPT ![target_slot[c]] =
                    MemoryBehavior(detected[c], incoming[c], @)]
  /\ staging' = [staging EXCEPT ![c] = NoQubit]
  /\ status' = [status EXCEPT ![target_slot[c]] = "FILLED"]
  /\ stored_signal' = stored_signal \cup {c}
  /\ pc' = [o \in Chan |-> IF o = c THEN "await"
                           ELSE IF pc[o] = "busy_wait" THEN "program" ELSE pc[o]]
  /\ incoming' = [o \in Chan |-> IF o = c THEN NoQubit
                                 ELSE IF pc[o] = "busy_wait" THEN staging[o]
                                 ELSE incoming[o]]
  /\ target_slot' = [target_slot EXCEPT ![c] = None]
  /\ detected' = [detected EXCEPT ![c] = FALSE]
  /\ UNCHANGED <<config, reset_timer, reset_trigger_timer, results, history,
                 now, arrivals, arrival_plan>>
  /\ UNCHANGED <<queues, source>>

\* --------------------------------------------------- RepeaterProtocol.run
\* Python truth value of a slot found by the scan: None and 0 are false.
Truthy(slot) == slot # None /\ slot # 0

FilledSlot(c) == FirstWithStatus(status, SlotsOf(c), "FILLED")

\* SimulationProtocol.run: what the sink publishes for a repeater result.
SinkResult(q1, q2) ==
  [qubits |-> <<q1, q2>>, pos_A |-> None, pos_B |-> None]

\* A repeater that pairs without sending the two slots to RESET.
Pair_without_reset(c) ==
  /\ c \in stored_signal
  /\ stored_signal' = stored_signal \ {c}
  /\ IF Truthy(FilledSlot("A")) /\ Truthy(FilledSlot("B"))
     THEN /\ results' = Append(results,
                 SinkResult(content[FilledSlot("A")], content[FilledSlot("B")]))
          /\ pairedSlots' = Append(pairedSlots, <<FilledSlot("A"), FilledSlot("B")>>)
          /\ content' = [content EXCEPT ![FilledSlot("A")] = EmptyPos,
                                        ![FilledSlot("B")] = EmptyPos]
          /\ UNCHANGED status
     ELSE UNCHANGED <<results, pairedSlots, content, status>>
  /\ UNCHANGED <<config, reset_timer, reset_trigger_timer, staging, router,
                 timedOut, now, arrivals, arrival_plan>>
  /\ UNCHANGED <<queues, source>>

\* The repeater handles one STORED signal.
Pair(c) ==
  /\ c \in stored_signal
  /\ stored_signal' = stored_signal \ {c}
  /\ IF Truthy(FilledSlot("A")) /\ Truthy(FilledSlot("B"))
     THEN /\ results' = Append(results,
                 SinkResult(content[FilledSlot("A")], content[FilledSlot("B")]))
          /\ pairedSlots' = Append(pairedSlots, <<FilledSlot("A"), FilledSlot("B")>>)
          /\ content' = [content EXCEPT ![FilledSlot("A")] = EmptyPos,
                                        ![FilledSlot("B")] = EmptyPos]
          /\ status' = [status EXCEPT ![FilledSlot("A")] = "RESET",
                                      ![FilledSlot("B")] = "RESET"]
     ELSE UNCHANGED <<results, pairedSlots, content, status>>
  /\ UNCHANGED <<config, reset_timer, reset_trigger_timer, staging, router,
                 timedOut, now, arrivals, arrival_plan>>
  /\ UNCHANGED <<queues, source>>

\* ------------------------------------------------------------ the machine
\* State once every protocol has started: MemoryAccess.run has flagged the
\* first slot of its channel TARGET, all timers hold their configured value.
\* The node's setup leaves every other slot IDLE with the default state.
InitWith(layout, prob, period, duration, plan) ==
  /\ arrival_plan = plan
  /\ slots_A = layout.A
  /\ slots_B = layout.B
  /\ probability_detection = prob
  /\ reset_period_cycles = period
  /\ reset_duration_cycles = duration
  /\ status = [s \in Range(layout.A) \cup Range(layout.B) |->
                 IF s = layout.A[1] \/ s = layout.B[1] THEN "TARGET" ELSE "IDLE"]
  /\ reset_timer = [s \in Range(layout.A) \cup Range(layout.B) |-> duration]
  /\ reset_trigger_timer = [s \in Range(layout.A) \cup Range(layout.B) |-> period]
  /\ content = [s \in Range(layout.A) \cup Range(layout.B) |-> DefaultState]
  /\ staging = [c \in Chan |-> NoQubit]
  /\ pc = [c \in Chan |-> "await"]
  /\ target_slot = [c \in Chan |-> None]
  /\ detected = [c \in Chan |-> FALSE]
  /\ incoming = [c \in Chan |-> NoQubit]
  /\ stored_signal = {}
  /\ results = <<>>
  /\ pairedSlots = <<>>
  /\ timedOut = {}
  /\ now = 0
  /\ arrivals = 0
  /\ qubits_A = <<>>
  /\ qubits_B = <<>>
  /\ success_result = [c \in Chan |-> None]
  /\ repeater_pc = "await"
  /\ SourceConstructed

Layouts == {SlotLayout(base, n) : base \in {0, 2}, n \in 1..MaxSlots}

Init ==
  \E layout \in Layouts, prob \in Probabilities,
     period \in 1..MaxPeriod, duration \in 1..MaxDuration :
       InitWith(layout, prob, period, duration, Unplanned)

Next ==
  \/ Tick
  \/ \E c \in Chan : Arrive(c)
  \/ \E c \in Chan : ArriveNull(c)
  \/ \E c \in Chan : ProgramDone(c)
  \/ \E c \in Chan : Pair(c)

Spec == Init /\ [][Next]_vars

\* Scenario A of the specification: one slot per channel, detection always
\* succeeding, reset period 10, reset duration 2, one qubit on channel A at
\* t=1 and one on channel B at t=2; with the slot ids 0 and 1 of the
\* scenario, and with the ids 2 and 3 that follow the two staging positions.
ScenarioAInit ==
  \E base \in {0, 2} :
     InitWith(SlotLayout(base, 1), 100, 10, 2, {<<"A", 1>>, <<"B", 2>>})

SpecScenarioA == ScenarioAInit /\ [][Next]_vars

\* ------------------------------------------- RepeaterProtocol._run_no_mem
\* use_memory = False: the routers are never started and the repeater itself
\* waits on both ports.  The memory has the two staging positions only.
NoMemLayout == [A |-> <<>>, B |-> <<>>]

\* The scripted arrivals of a run: any set of <<channel, instant>>.
NoMemPlans == SUBSET (Chan \X (0..(MaxInstants - 1)))

\* Python truth test "if q1 and q2".  Variant: one qubit is enough.
either_present(q1, q2) == q1 # NoQubit \/ q2 # NoQubit

both_present(q1, q2) == q1 # NoQubit /\ q2 # NoQubit

\* Staging position c after the wake-up that found the positions as in st.
\* Variant: a lone qubit is left where it is.
popped_when_paired(st, c) ==
  IF st["A"] # NoQubit /\ st["B"] # NoQubit THEN NoQubit ELSE st[c]

\* qmemory.pop empties the position whatever it held.
popped(st, c) == NoQubit

\* Ids of the qubits that reach the ports in one instant: in order of the
\* channels, counted on from the qubits that arrived before.
NewId(c, delivered) ==
  IF c \notin delivered THEN NoQubit
  ELSE IF c = "B" /\ "A" \in delivered THEN arrivals + 2 ELSE arrivals + 1

\* The staging positions when the repeater wakes up.
Placed(delivered) ==
  [c \in Chan |-> IF c \in delivered THEN NewId(c, delivered) ELSE staging[c]]

\* One instant with port input: the messages of this instant reach their
\* ports, those in lost without a qubit, and the repeater wakes up once.  It
\* pops both staging positions and signals a result if both held a qubit.
NoMemInput(ports, lost) ==
  /\ ports = {c \in Chan : <<c, now>> \in arrival_plan}
  /\ ports # {}
  /\ lost \subseteq ports
  /\ arrival_plan' = arrival_plan \ {<<c, now>> : c \in ports}
  /\ arrivals' = arrivals + Cardinality(ports \ lost)
  /\ staging' = [c \in Chan |-> popped(Placed(ports \ lost), c)]
  /\ results' =
       IF both_present(Placed(ports \ lost)["A"], Placed(ports \ lost)["B"])
       THEN Append(results, SinkResult(Raw(Placed(ports \ lost)["A"]),
                                       Raw(Placed(ports \ lost)["B"])))
       ELSE results
  /\ UNCHANGED <<config, memory, router, stored_signal, history, now>>
  /\ UNCHANGED <<queues, source>>

NoMemInit ==
  \E plan \in NoMemPlans : InitWith(NoMemLayout, 100, 1, 1, plan)

NoMemNext ==
  \/ Tick
  \/ \E ports \in SUBSET Chan, lost \in SUBSET Chan : NoMemInput(ports, lost)

SpecNoMem == NoMemInit /\ [][NoMemNext]_vars

\* -------------------------------------------------- construction, any input
\* MemoryRouting.__init__ and MemoryAccess.__init__ copy the three values of
\* mem_config as they come; the values below lie on both sides of every
\* limit the configuration surface names.
AnyProbabilities == {-10, 50, 150}
AnyPeriods       == {-1, 0, 1}
AnyDurations     == {0, 1}

AnyConfigInit ==
  \E base \in {0, 2}, prob \in AnyProbabilities,
     period \in AnyPeriods, duration \in AnyDurations :
       InitWith(SlotLayout(base, 1), prob, period, duration, Unplanned)

SpecAnyConfig == AnyConfigInit /\ [][Next]_vars

\* ------------------------------------------------------------ slot reuse
\* Two slots per channel and a script that fills a slot of channel A, pairs
\* it, and sends channel A two more qubits while the slot is reclaimed.
ReusePlan == {<<"A", 0>>, <<"B", 0>>, <<"A", 1>>, <<"A", 2>>}

ReuseInit ==
  \E base \in {0, 2}, period \in 1..MaxPeriod, duration \in 1..MaxDuration :
     InitWith(SlotLayout(base, 2), 100, period, duration, ReusePlan)

SpecReuse == ReuseInit /\ [][Next]_vars

\* ------------------------------------------------------------ three slots
\* Three slots per channel and a script that pairs the first two slots of
\* channel A one tick apart and then fills the first one again, so that a
\* tick finds slot 1 FILLED, slot 2 about to leave RESET and slot 3 IDLE.
ThreeSlotPlan ==
  {<<"A", 0>>, <<"B", 0>>, <<"A", 1>>, <<"B", 1>>, <<"A", 2>>}

ThreeSlotInit ==
  \E base \in {0, 2} : InitWith(SlotLayout(base, 3), 100, 3, 1, ThreeSlotPlan)

SpecThreeSlots == ThreeSlotInit /\ [][Next]_vars

\* ------------------------------------------------------ a clock that goes on
\* The clock of the node keeps ticking for as long as the simulation runs.
\* The ticks are counted while a scripted arrival still lies ahead; after
\* that they go on uncounted.
TickOn ==
  /\ now' = IF \E e \in arrival_plan : e[2] > now THEN now + 1 ELSE now
  /\ status' = AfterTick.status
  /\ reset_timer' = AfterTick.reset_timer
  /\ reset_trigger_timer' = AfterTick.reset_trigger_timer
  /\ content' = AfterTick.content
  /\ timedOut' = timedOut \cup TimedOutNow
  /\ UNCHANGED <<config, staging, router, stored_signal, results, pairedSlots,
                 arrivals, arrival_plan>>
  /\ UNCHANGED <<queues, source>>

\* A qubit may arrive on each channel at the start.
LivePlan == {<<"A", 0>>, <<"B", 0>>}

LiveInit ==
  \E n \in 1..MaxSlots, prob \in Probabilities,
     period \in 1..MaxPeriod, duration \in 1..MaxDuration :
       InitWith(SlotLayout(2, n), prob, period, duration, LivePlan)

LiveNext ==
  \/ TickOn
  \/ \E c \in Chan : Arrive(c)
  \/ \E c \in Chan : ArriveNull(c)
  \/ \E c \in Chan : ProgramDone(c)
  \/ \E c \in Chan : Pair(c)

\* The clock ticks for ever, a started program ends, a sent signal is handled.
\* A tick is the only step that changes a timer, and it changes a timer of
\* every slot, so "the timers change again and again" says that TickOn,
\* which is always enabled, is taken again and again.
SpecLive ==
  /\ LiveInit
  /\ [][LiveNext]_vars
  /\ []<><<TRUE>>_<<reset_timer, reset_trigger_timer>>
  /\ \A c \in Chan : WF_vars(ProgramDone(c)) /\ WF_vars(Pair(c))

\* ------------------------------------ queue-based variant (entanglement_swap_sim)
\* The earlier repeater: RouteQubits puts an arriving qubit on the first
\* unused memory position of its channel and signals the position, and the
\* repeater queues the signalled positions in qubits_A and qubits_B and
\* measures while both queues are non-empty.  It has no slot status and no
\* timers; status, the timers and the three mem_config values are idle here.
\* A Bell measurement is a program of duration zero (no physical
\* instruction is configured), so a signal is handled in the instant it is
\* sent; the measurement is not in place and empties the two positions.

\* _bsm_results.
BsmResults == {<<0, 0>>, <<0, 1>>, <<1, 0>>, <<1, 1>>}

\* Every scripted arrival of a run of the variant: a qubit may come on each
\* channel at each instant.
QueuePlan == Chan \X (0..(MaxInstants - 1))

\* _get_mem_slots splits the positions 0..capacity-1 in two halves; with
\* 2n positions that is SlotLayout(0, n).
QueueInitWith(layout, plan) ==
  /\ arrival_plan = plan
  /\ slots_A = layout.A
  /\ slots_B = layout.B
  /\ probability_detection = 100
  /\ reset_period_cycles = 1
  /\ reset_duration_cycles = 1
  /\ status = [s \in Range(layout.A) \cup Range(layout.B) |-> "IDLE"]
  /\ reset_timer = [s \in Range(layout.A) \cup Range(layout.B) |-> 1]
  /\ reset_trigger_timer = [s \in Range(layout.A) \cup Range(layout.B) |-> 1]
  /\ content = [s \in Range(layout.A) \cup Range(layout.B) |-> EmptyPos]
  /\ staging = [c \in Chan |-> NoQubit]
  /\ pc = [c \in Chan |-> "await"]
  /\ target_slot = [c \in Chan |-> None]
  /\ detected = [c \in Chan |-> FALSE]
  /\ incoming = [c \in Chan |-> NoQubit]
  /\ stored_signal = {}
  /\ results = <<>>
  /\ pairedSlots = <<>>
  /\ timedOut = {}
  /\ now = 0
  /\ arrivals = 0
  /\ qubits_A = <<>>
  /\ qubits_B = <<>>
  /\ success_result = [c \in Chan |-> None]
  /\ repeater_pc = "await"
  /\ SourceConstructed

\* Simulated time moves on to the next instant.  A waiting repeater handles
\* a SUCCESS signal in the instant in which it is raised.
Advance ==
  /\ now < MaxInstants
  /\ repeater_pc = "await" => \A c \in Chan : success_result[c] = None
  /\ now' = now + 1
  /\ UNCHANGED <<config, memory, staging, router, stored_signal, results,
                 history, arrival_plan, arrivals, queues, source>>

\* Variant that searches from the last position down.
get_unused_slot_last(slots) ==
  IF \E i \in 1..Len(slots) : content[slots[i]] = EmptyPos
  THEN slots[CHOOSE i \in 1..Len(slots) :
               /\ content[slots[i]] = EmptyPos
               /\ \A j \in (i+1)..Len(slots) : content[slots[j]] # EmptyPos]
  ELSE None

\* RouteQubits._get_unused_slot: the first position of slots that is not used.
get_unused_slot(slots) ==
  IF \E i \in 1..Len(slots) : content[slots[i]] = EmptyPos
  THEN slots[CHOOSE i \in 1..Len(slots) :
               /\ content[slots[i]] = EmptyPos
               /\ \A j \in 1..(i-1) : content[slots[j]] # EmptyPos]
  ELSE None

\* RouteQubits.run of channel c handles a port input.  The repeater handles
\* a signal in the instant it is sent, so none is waiting when the next
\* qubit of the channel comes.
RouteQubits(c) ==
  /\ <<c, now>> \in arrival_plan
  /\ repeater_pc = "await" => success_result[c] = None
  /\ arrival_plan' = arrival_plan \ {<<c, now>>}
  /\ arrivals' = arrivals + 1
  /\ IF get_unused_slot(SlotsOf(c)) # None
     THEN /\ content' = [content EXCEPT ![get_unused_slot(SlotsOf(c))] =
                            Raw(arrivals + 1)]
          /\ success_result' = [success_result EXCEPT ![c] =
                                  get_unused_slot(SlotsOf(c))]
     ELSE UNCHANGED <<content, success_result>>
  /\ UNCHANGED <<config, status, reset_timer, reset_trigger_timer, staging,
                 router, stored_signal, results, history, now,
                 qubits_A, qubits_B, repeater_pc, source>>

\* The queue of a channel once the repeater has appended the signalled
\* position.
Appended(queue, c) ==
  IF success_result[c] # None THEN Append(queue, success_result[c]) ELSE queue

\* The position the repeater takes from a queue: qubits_A[-1], removed by
\* qubits_A.pop().
next_pending(queue, i) == queue[Len(queue) - i + 1]

Min(a, b) == IF a <= b THEN a ELSE b

\* The repeater, waiting for a SUCCESS signal, wakes on one or both signals
\* and appends the signalled positions; with a position pending on either
\* channel it starts a Bell measurement on the last position of either queue
\* and waits for the program.
RepeaterWake ==
  /\ repeater_pc = "await"
  /\ \E c \in Chan : success_result[c] # None
  /\ success_result' = [c \in Chan |-> None]
  /\ qubits_A' = Appended(qubits_A, "A")
  /\ qubits_B' = Appended(qubits_B, "B")
  /\ repeater_pc' = IF Min(Len(qubits_A'), Len(qubits_B')) > 0
                    THEN "program" ELSE "await"
  /\ UNCHANGED <<config, memory, staging, router, stored_signal, results,
                 history, arrival_plan, now, arrivals, source>>

\* The SUCCESS signals the repeater can still receive when it goes back to
\* waiting: a signal raised at an earlier instant has passed unheard, one
\* raised at the instant the program ends is heard or not, depending on the
\* order in which the instant's events are handled.
heard_signals ==
  {h \in [Chan -> {None} \cup AllSlots] :
     \A c \in Chan :
        h[c] # None => /\ h[c] = success_result[c]
                       /\ <<c, now>> \notin arrival_plan}

\* The Bell measurement ends: the repeater pops the last position of either
\* queue and signals the result; with a position still pending on either
\* channel it starts the next measurement, otherwise it goes back to waiting
\* for a SUCCESS signal.
MeasureDone ==
  /\ repeater_pc = "program"
  /\ \E m \in BsmResults : results' = Append(results, [meas |-> m])
  /\ pairedSlots' = Append(pairedSlots,
                        <<next_pending(qubits_A, 1), next_pending(qubits_B, 1)>>)
  /\ content' = [content EXCEPT ![next_pending(qubits_A, 1)] = EmptyPos,
                                ![next_pending(qubits_B, 1)] = EmptyPos]
  /\ qubits_A' = SubSeq(qubits_A, 1, Len(qubits_A) - 1)
  /\ qubits_B' = SubSeq(qubits_B, 1, Len(qubits_B) - 1)
  /\ repeater_pc' = IF Min(Len(qubits_A'), Len(qubits_B')) > 0
                    THEN "program" ELSE "await"
  /\ success_result' \in heard_signals
  /\ UNCHANGED <<config, status, reset_timer, reset_trigger_timer, staging,
                 router, stored_signal, timedOut, arrival_plan, now, arrivals,
                 source>>

QueueInit ==
  \E n \in 1..MaxSlots : QueueInitWith(SlotLayout(0, n), QueuePlan)

QueueNext ==
  \/ Advance
  \/ \E c \in Chan : RouteQubits(c)
  \/ RepeaterWake
  \/ MeasureDone

SpecQueue == QueueInit /\ [][QueueNext]_vars

\* ------------------------------------ queue-based variant without memory
\* _run_no_mem of the variant waits on the conjunction of the two port
\* inputs: the expression is triggered once each port has had an input,
\* whenever each came.  A port keeps its last input message until rx_input
\* takes it; staging[c] is the qubit of the message waiting on port c.

\* One instant with port input.  The messages of this instant reach their
\* ports; once both ports hold a message the repeater takes both, puts the
\* qubits on positions 0 and 1 and measures them.
AndInput(ports) ==
  /\ ports = {c \in Chan : <<c, now>> \in arrival_plan}
  /\ ports # {}
  /\ arrival_plan' = arrival_plan \ {<<c, now>> : c \in ports}
  /\ arrivals' = arrivals + Cardinality(ports)
  /\ IF both_present(Placed(ports)["A"], Placed(ports)["B"])
     THEN /\ staging' = [c \in Chan |-> NoQubit]
          /\ \E m \in BsmResults : results' = Append(results, [meas |-> m])
     ELSE /\ staging' = Placed(ports)
          /\ UNCHANGED results
  /\ UNCHANGED <<config, memory, router, stored_signal, history, now, queues,
                 source>>

AndInit == \E plan \in NoMemPlans : QueueInitWith(NoMemLayout, plan)

AndNext ==
  \/ Advance
  \/ \E ports \in SUBSET Chan : AndInput(ports)

SpecQueueNoMem == AndInit /\ [][AndNext]_vars

\* ---------------------------------------------------------------- QSource
\* The quantum source of src/qsource.py on its own: its status, the triggers
\* it receives on its trigger port and from its internal clock, the NEWPULSE
\* events it schedules and their emission.  Times are whole nanoseconds.

\* Everything outside the source.
repeater_state ==
  <<config, memory, staging, router, stored_signal, results, history,
    arrival_plan, now, arrivals, queues>>

SourceStatus == {"OFF", "INTERNAL", "EXTERNAL"}

\* Simulation times at which the source is observed: the first nanoseconds
\* of a run and the nanoseconds around one second of simulated time.
Second == 1000000000
SourceInstants == {0, 1, 2, Second, Second + 1, Second + 2}

\* prep_delay: trigger_delay plus the emission delay of the delay model.
PrepDelays == {0, 1, 2}

\* math.isclose(a, b) with its default rel_tol = 1e-09 and abs_tol = 0.0:
\* abs(a - b) <= rel_tol * max(abs(a), abs(b)).  For whole numbers that is
\* abs(a - b) <= max(abs(a), abs(b)) \div 10^9.
RelTolInverse == 1000000000
Abs(x) == IF x < 0 THEN -x ELSE x
isclose(a, b) ==
  Abs(a - b) <= (IF Abs(a) > Abs(b) THEN Abs(a) ELSE Abs(b)) \div RelTolInverse

\* The test of _generate_new_pulse for a trigger that comes too early.
busy(curr_time) ==
  ~isclose(curr_time, busy_until) /\ curr_time < busy_until

\* The status setter.  The NEWPULSE handler is waited for in INTERNAL and
\* EXTERNAL and dismissed in OFF; _busy_until and the scheduled events stay.
SetStatus(value) ==
  /\ value # qs_status
  /\ qs_status' = value
  /\ UNCHANGED <<busy_until, pulse_events, pulse_count, emitted, sim_time,
                 trigger_error, trigger_count>>
  /\ UNCHANGED repeater_state

\* The handler raises QSourceTriggerError before it has changed anything.
raise_trigger_error ==
  /\ trigger_error' = TRUE
  /\ UNCHANGED <<qs_status, busy_until, pulse_events, pulse_count, emitted>>

\* _generate_new_pulse with a prep_delay of d.
generate_new_pulse(d) ==
  IF qs_status = "OFF"
  THEN /\ trigger_error' = FALSE
       /\ UNCHANGED <<qs_status, busy_until, pulse_events, pulse_count, emitted>>
  ELSE IF busy(sim_time)
  THEN raise_trigger_error
  ELSE /\ busy_until' = sim_time + d
       /\ pulse_events' = Append(pulse_events, sim_time + d)
       /\ pulse_count' = pulse_count + 1
       /\ trigger_error' = FALSE
       /\ UNCHANGED <<qs_status, emitted>>

\* A message reaches the trigger port.
external_tick_handler(d) ==
  /\ trigger_count < MaxTriggers
  /\ sim_time + d \in SourceInstants
  /\ trigger_count' = trigger_count + 1
  /\ IF qs_status = "INTERNAL" THEN raise_trigger_error
                               ELSE generate_new_pulse(d)
  /\ UNCHANGED sim_time
  /\ UNCHANGED repeater_state

\* The internal clock ticks.
internal_tick_handler(d) ==
  /\ trigger_count < MaxTriggers
  /\ sim_time + d \in SourceInstants
  /\ trigger_count' = trigger_count + 1
  /\ IF qs_status = "EXTERNAL" THEN raise_trigger_error
                               ELSE generate_new_pulse(d)
  /\ UNCHANGED sim_time
  /\ UNCHANGED repeater_state

\* The scheduled NEWPULSE events that are due, oldest first.
DueEvents == {i \in 1..Len(pulse_events) : pulse_events[i] = sim_time}

Without(seq, i) == SubSeq(seq, 1, i - 1) \o SubSeq(seq, i + 1, Len(seq))

\* The oldest due NEWPULSE event is handled: _emit puts the pulse on the
\* output ports unless the source is OFF.
emit ==
  /\ DueEvents # {}
  /\ LET i == CHOOSE k \in DueEvents : \A j \in DueEvents : k <= j
     IN pulse_events' = Without(pulse_events, i)
  /\ emitted' = IF qs_status = "OFF" THEN emitted ELSE emitted + 1
  /\ UNCHANGED <<qs_status, busy_until, pulse_count, sim_time, trigger_error,
                 trigger_count>>
  /\ UNCHANGED repeater_state

\* Simulated time moves on, once every event of the present instant has been
\* handled, to a later instant that no scheduled event precedes.
TimePasses ==
  /\ \E t \in SourceInstants :
        /\ t > sim_time
        /\ \A i \in 1..Len(pulse_events) :
              pulse_events[i] > sim_time /\ pulse_events[i] >= t
        /\ sim_time' = t
  /\ UNCHANGED <<qs_status, busy_until, pulse_events, pulse_count, emitted,
                 trigger_error, trigger_count>>
  /\ UNCHANGED repeater_state

SourceInit == InitWith(SlotLayout(0, 1), 100, 1, 1, Unplanned)

SourceNext ==
  \/ \E value \in SourceStatus : SetStatus(value)
  \/ \E d \in PrepDelays : external_tick_handler(d)
  \/ \E d \in PrepDelays : internal_tick_handler(d)
  \/ emit
  \/ TimePasses

SpecSource == SourceInit /\ [][SourceNext]_vars

\* ============================================================ properties
TargetSlots(c) == {s \in Range(SlotsOf(c)) : status[s] = "TARGET"}

\* The step is a router finishing its storage operation on channel c.
RouterFinishes(c) == pc[c] = "program" /\ pc'[c] = "await"

\* The step is the repeater handling a STORED signal.
PairingStep == stored_signal' # stored_signal /\ stored_signal' \subseteq stored_signal

\* The step is a clock tick.
TickStep == now' = now + 1

\* Routers whose storage transform is executing on the processor.
ExecutingRouters == {c \in Chan : pc[c] = "program"}

Quiescent == stored_signal = {} /\ \A c \in Chan : pc[c] = "await"

\* C1: in every reachable state each channel has at most one slot with
\* status TARGET.
C1_AtMostOneTarget == \A c \in Chan : Cardinality(TargetSlots(c)) <= 1

\* A second slot has been promoted to TARGET after the first one was filled
\* and a pair has already been handed off.
C1_Witness ==
  /\ Len(slots_A) = 2
  /\ status[slots_A[2]] = "TARGET"
  /\ status[slots_A[1]] = "FILLED"
  /\ Len(results) > 0

\* C2: a router that finishes a storage operation whose detection trial
\* failed leaves the status and the payload of its TARGET slot unchanged and
\* emits no STORED signal.
C2_FailedDetectionNoStore ==
  [][\A c \in Chan :
       (RouterFinishes(c) /\ ~detected[c]) =>
          /\ status'[target_slot[c]] = status[target_slot[c]]
          /\ content'[target_slot[c]] = content[target_slot[c]]
          /\ stored_signal' = stored_signal]_vars

\* C3: with detection probability 0 no slot is ever FILLED and no pair is
\* ever emitted.
C3_NoFillWithoutDetection ==
  probability_detection = 0 =>
     /\ \A s \in AllSlots : status[s] # "FILLED"
     /\ results = <<>>

\* C4: a slot holds a stored payload if and only if its status is FILLED.
C4_PayloadIffFilled ==
  \A s \in AllSlots : (content[s].kind = "stored") <=> (status[s] = "FILLED")

\* C5: a slot becomes FILLED only in the step in which a router finishes a
\* storage operation with a successful detection on that slot, and only if
\* the slot is TARGET when the status is written.
C5_FilledOnlyByDetectedStoreOnTarget ==
  [][\A s \in AllSlots :
       (status[s] # "FILLED" /\ status'[s] = "FILLED") =>
          \E c \in Chan : /\ RouterFinishes(c)
                          /\ target_slot[c] = s
                          /\ detected[c]
                          /\ status[s] = "TARGET"]_vars

\* C6: at most one storage transform executes on the processor at any time,
\* and a router suspended on the busy processor stays suspended until the
\* executing router releases it and then runs its own transform.
C6_ExclusiveProcessor ==
  [][/\ Cardinality(ExecutingRouters') <= 1
     /\ \A c \in Chan :
          pc[c] = "busy_wait" =>
             \/ pc'[c] = "busy_wait"
             \/ /\ pc'[c] = "program"
                /\ \E o \in Chan \ {c} : RouterFinishes(o)]_vars

\* One router executes its transform while the other is suspended on the
\* busy processor.
C6_Witness ==
  \E c \in Chan, o \in Chan : pc[c] = "program" /\ pc[o] = "busy_wait"

\* C7: when the repeater handles a STORED signal and both channels have a
\* FILLED slot, it emits exactly one result with the payloads of the lowest
\* FILLED slot of each channel and both slots are RESET afterwards, whatever
\* their ids; otherwise it emits nothing and changes no slot.
C7_PairsLowestFilled ==
  [][PairingStep =>
       IF FilledSlot("A") # None /\ FilledSlot("B") # None
       THEN /\ Len(results') = Len(results) + 1
            /\ results'[Len(results')].qubits =
                  <<content[FilledSlot("A")], content[FilledSlot("B")]>>
            /\ status'[FilledSlot("A")] = "RESET"
            /\ status'[FilledSlot("B")] = "RESET"
       ELSE UNCHANGED <<results, status, content>>]_vars

\* C8: in scenario A, once both qubits have arrived and have been handled, a
\* pair has been emitted for slots 0 and 1 (at t=2, before the next tick).
C8_ScenarioAPairs ==
  (slots_A = <<0>> /\ slots_B = <<1>> /\ arrival_plan = {} /\ Quiescent) =>
     /\ Len(pairedSlots) = 1
     /\ pairedSlots[1] = <<0, 1>>

\* C9: every result delivered to the sink carries the ids of the two slots
\* its payloads were extracted from.
C9_ResultCarriesSlotIds ==
  \A i \in 1..Len(results) :
     /\ results[i].pos_A = pairedSlots[i][1]
     /\ results[i].pos_B = pairedSlots[i][2]

\* A FILLED slot whose trigger timer has run out: the next tick resets it.
ExpiredFilled(s) == status[s] = "FILLED" /\ reset_trigger_timer[s] = 0

\* No result holds a payload that was in a FILLED slot when it timed out.
NoTimedOutPayloadPaired ==
  \A i \in 1..Len(results) : \A k \in 1..2 : results[i].qubits[k].id \notin timedOut

LeavesReset(s) == status[s] = "RESET" /\ status'[s] \in {"IDLE", "TARGET"}

\* C11: every RESET -> IDLE transition, whether RESET was entered by timeout
\* or by pairing, leaves the slot with the default payload, reset_timer equal
\* to reset_duration_cycles and trigger_timer equal to reset_period_cycles.
C11_ResetRestoresSlot ==
  [][\A s \in AllSlots :
       LeavesReset(s) => /\ content'[s] = DefaultState
                         /\ reset_timer'[s] = reset_duration_cycles
                         /\ reset_trigger_timer'[s] = reset_period_cycles]_vars

\* A continuous stream: a qubit on both channels at every instant 0..period-1,
\* with detection always succeeding.
StreamPlan(period) == {<<c, t>> : c \in Chan, t \in 0..(period - 1)}

StreamInit ==
  \E layout \in Layouts, period \in 1..MaxPeriod, duration \in 1..MaxDuration :
     InitWith(layout, 100, period, duration, StreamPlan(period))

SpecStream == StreamInit /\ [][Next]_vars

\* Every qubit planned for an instant before now has arrived.
StreamDelivered == \A e \in arrival_plan : e[2] >= now

\* Both channels hold a FILLED slot: a matching pair has been stored.
PairStored == \A c \in Chan : \E s \in Range(SlotsOf(c)) : status[s] = "FILLED"

\* C12: with detection always succeeding and a qubit on both channels at
\* every tick, a pair has been emitted once reset_period_cycles ticks have
\* passed; in particular the pair is out when every arrival has been handled
\* and both channels have stored their qubit.
C12_StreamPairsWithinPeriod ==
  (StreamDelivered /\ Quiescent /\ PairStored /\ now >= reset_period_cycles)
     => Len(results) >= 1

\* Channel c has a TARGET slot and no slot in RESET.
SettledChannel(c) ==
  /\ get_target_slot(c) # None
  /\ \A s \in Range(SlotsOf(c)) : status[s] # "RESET"

\* No trigger timer of channel c has run out.
NoTimerExpired(c) == \A s \in Range(SlotsOf(c)) : reset_trigger_timer[s] # 0

\* The step leaves status and payload of every slot of channel c as they were.
SlotsKept(c) ==
  \A s \in Range(SlotsOf(c)) : status'[s] = status[s] /\ content'[s] = content[s]

\* C13 as stated: a tick on a channel with a TARGET slot and no slot in RESET
\* changes no status and no payload of the channel.
C13_TickChangesOnlyTimers ==
  [][TickStep => \A c \in Chan : SettledChannel(c) => SlotsKept(c)]_vars

\* C13, amended: a tick on a channel with a TARGET slot, no slot in RESET and
\* no trigger timer at zero changes no status and no payload of the channel;
\* a slot whose trigger timer is at zero is forced to RESET by the tick.
C13_TickWithoutExpiryChangesOnlyTimers ==
  [][TickStep => \A c \in Chan :
       /\ (SettledChannel(c) /\ NoTimerExpired(c)) => SlotsKept(c)
       /\ \A s \in Range(SlotsOf(c)) :
            (status[s] # "RESET" /\ reset_trigger_timer[s] = 0)
               => status'[s] = "RESET"]_vars

\* A channel after a tick that only counted: it has a TARGET and a FILLED
\* slot, none in RESET, and every trigger timer is below the period and
\* above zero.
C13_Witness ==
  /\ now >= 1
  /\ \E c \in Chan :
       /\ SettledChannel(c)
       /\ \E s \in Range(SlotsOf(c)) : status[s] = "FILLED" /\ content[s].kind = "stored"
       /\ \A s \in Range(SlotsOf(c)) :
            reset_trigger_timer[s] > 0 /\ reset_trigger_timer[s] < reset_period_cycles

\* The step is the arrival of a new qubit on the port of channel c.
ArrivalOn(c) == arrivals' = arrivals + 1 /\ staging'[c] = arrivals'

\* The router of channel c handles a new arrival while the channel has no
\* TARGET slot.
DropStep(c) ==
  ArrivalOn(c) /\ pc[c] = "await" /\ get_target_slot(c) = None

\* C14: when the router handles an arrival while its channel has no TARGET
\* slot, the staging buffer is empty afterwards, no slot's status or payload
\* changes, no storage program is started and no STORED signal is sent.
C14_DropClearsStaging ==
  [][\A c \in Chan :
       DropStep(c) => /\ staging'[c] = NoQubit
                      /\ status' = status /\ content' = content
                      /\ pc'[c] = "await"
                      /\ stored_signal' = stored_signal]_vars

\* C15: the drop counter grows by exactly one in a step that discards an
\* arrival for want of a TARGET slot, and is unchanged by every other step.
C15_DropCounterCountsDrops ==
  [][IF \E c \in Chan : DropStep(c)
     THEN drop_counter' = drop_counter + 1
     ELSE drop_counter' = drop_counter]_vars

\* Steps of the mode without memory: qubits reach both ports in this
\* instant, or exactly one port while both staging positions are empty.
PairWake == arrivals' = arrivals + 2
LoneWake == arrivals' = arrivals + 1 /\ \A c \in Chan : staging[c] = NoQubit

StagingEmpty == \A c \in Chan : staging[c] = NoQubit

\* C16 as stated: without memory, a wake-up with a qubit on both staging
\* positions pops both and signals one result; a wake-up with a qubit on one
\* position only signals nothing and leaves that qubit staged.
C16_LoneQubitStaysStaged ==
  [][/\ PairWake => Len(results') = Len(results) + 1 /\ StagingEmpty'
     /\ LoneWake => /\ results' = results
                    /\ \E c \in Chan : staging'[c] = arrivals']_vars

\* C16, amended: without memory, every wake-up pops both staging positions;
\* it signals one result, carrying the two qubits, when both held a qubit,
\* and signals nothing and discards the qubit when only one did.
C16_EveryWakePopsBoth ==
  [][/\ StagingEmpty'
     /\ PairWake => /\ Len(results') = Len(results) + 1
                    /\ results'[Len(results')].qubits =
                         <<Raw(arrivals + 1), Raw(arrivals + 2)>>
     /\ LoneWake => results' = results]_vars

\* A run without memory that has discarded a lone qubit and paired two.
C16_Witness ==
  /\ slots_A = <<>> /\ slots_B = <<>>
  /\ arrivals = 3
  /\ Len(results) = 1
  /\ StagingEmpty

\* C17: without memory, qubits that reach both ports in the same instant
\* produce a result in that instant, and an instant in which a qubit reaches
\* only one port produces none, whatever arrived before.
C17_OnlySimultaneousArrivalsPair ==
  [][/\ arrivals' = arrivals + 2 => /\ Len(results') = Len(results) + 1
                                    /\ now' = now
     /\ arrivals' # arrivals + 2 => results' = results]_vars

\* A run without memory in which a qubit came alone on two earlier instants
\* and the pair of the third instant, qubits 3 and 4, is the only result.
C17_Witness ==
  /\ slots_A = <<>> /\ slots_B = <<>>
  /\ now >= 2
  /\ arrivals = 4
  /\ Len(results) = 1
  /\ results[1].qubits = <<Raw(3), Raw(4)>>

\* The configuration surface: a probability (in percent, as the draw of
\* MemoryRouting.run reads it) and positive timer constants.
ValidConfig ==
  /\ probability_detection \in 0..100
  /\ reset_period_cycles > 0
  /\ reset_duration_cycles > 0

\* C18: a repeater whose probability is outside its range, or whose reset
\* period or reset duration is not positive, is never constructed: no such
\* node handles a tick or an arrival.
C18_InvalidConfigNeverRuns ==
  ~ValidConfig => (now = 0 /\ arrivals = 0)

\* C20: in every state and for each channel, the lowest-id FILLED slot holds
\* the qubit that was stored earliest among the channel's FILLED slots.
\* Qubits are numbered in order of arrival and a router stores them in that
\* order, so the earliest stored is the one with the least number.
C20_LowestFilledIsOldest ==
  \A c \in Chan :
     FilledSlot(c) # None =>
        \A s \in Range(SlotsOf(c)) :
           status[s] = "FILLED" => content[FilledSlot(c)].id <= content[s].id

\* C21: a slot in RESET becomes IDLE on the tick whose decrement brings its
\* reset_timer to zero, the D-th tick after it entered RESET with
\* reset_timer = reset_duration_cycles.
C21_ResetLastsDurationTicks ==
  [][TickStep =>
       \A s \in AllSlots :
          (status[s] = "RESET" /\ reset_timer[s] = 1)
             => status'[s] \in {"IDLE", "TARGET"}]_vars

\* C22: a slot that is not in RESET is forced to RESET on the tick whose
\* decrement brings its trigger timer to zero, the P-th tick it spends out
\* of RESET since the timer was reset_period_cycles, and that tick sets the
\* trigger timer back to reset_period_cycles.
C22_TimeoutAfterPeriodTicks ==
  [][TickStep =>
       \A s \in AllSlots :
          (status[s] # "RESET" /\ reset_trigger_timer[s] = 1)
             => /\ status'[s] = "RESET"
                /\ reset_trigger_timer'[s] = reset_period_cycles]_vars

\* C23: at the end of every tick, each channel has a TARGET slot or has no
\* IDLE slot.
C23_TickLeavesTargetOrNoIdle ==
  [][TickStep =>
       \A c \in Chan :
          \/ \E s \in Range(SlotsOf(c)) : status'[s] = "TARGET"
          \/ \A s \in Range(SlotsOf(c)) : status'[s] # "IDLE"]_vars

\* A channel whose first slot was filled and whose second slot has been
\* promoted to TARGET by a later tick.
C23_Witness ==
  /\ now >= 1
  /\ \E c \in Chan :
       /\ Len(SlotsOf(c)) = 2
       /\ status[SlotsOf(c)[1]] = "FILLED"
       /\ status[SlotsOf(c)[2]] = "TARGET"

\* The slots of a channel after a tick has updated every one of them and
\* promoted none: the for loop without its calls of _get_new_target.
RECURSIVE process_all(_, _, _)
process_all(m, slots, i) ==
  IF i > Len(slots) THEN m
  ELSE process_all(process_slot(m, slots[i]), slots, i + 1)

\* C24: when the fully updated slots of a channel include no TARGET, the tick
\* promotes the lowest-id slot that is IDLE in that fully updated state.
C24_PromotionAfterAllSlots ==
  [][TickStep =>
       \A c \in Chan :
          (/\ FirstWithStatus(process_all(Mem, SlotsOf(c), 1).status,
                              SlotsOf(c), "TARGET") = None
           /\ FirstWithStatus(process_all(Mem, SlotsOf(c), 1).status,
                              SlotsOf(c), "IDLE") # None)
             => status'[FirstWithStatus(process_all(Mem, SlotsOf(c), 1).status,
                                        SlotsOf(c), "IDLE")] = "TARGET"]_vars

\* C25: once every STORED signal has been handled, channel A and channel B
\* do not both have a FILLED slot.
C25_NoReadyPairLeft ==
  stored_signal = {} => ~PairStored
SlotIds == 2..(2 * MaxSlots + 1)

\* C27: with a clock that keeps ticking, every slot in RESET leaves RESET
\* for IDLE again (and may be promoted to TARGET by the same tick), and every
\* channel has a TARGET slot again and again, whatever arrives and is paired.
C27_SlotsAreReused ==
  /\ \A s \in SlotIds :
        (s \in AllSlots /\ status[s] = "RESET")
           ~> (s \in AllSlots /\ status[s] \in {"IDLE", "TARGET"})
  /\ \A c \in Chan : []<>(get_target_slot(c) # None)

\* A slot back in service after a reset: a slot that was paired, or held a
\* payload at a timeout, is TARGET again.
C27_Witness ==
  /\ \E s \in AllSlots :
       /\ status[s] = "TARGET"
       /\ \/ \E i \in 1..Len(pairedSlots) : s \in {pairedSlots[i][1], pairedSlots[i][2]}
          \/ timedOut # {}

\* The positions of channel c that hold a stored qubit the repeater has not
\* measured: the queued ones and the one just signalled.
QueueOf(c) == IF c = "A" THEN qubits_A ELSE qubits_B
PendingSlots(c) == Range(QueueOf(c)) \cup ({success_result[c]} \ {None})

\* C28: in the queue-based variant, the two positions of every measured
\* pair are the earliest-stored pending positions of their channels: no
\* other pending position of the channel holds a qubit that arrived before.
C28_QueueIsFifo ==
  [][Len(pairedSlots') > Len(pairedSlots) =>
       /\ \A s \in PendingSlots("A") :
             content[pairedSlots'[Len(pairedSlots) + 1][1]].id <= content[s].id
       /\ \A s \in PendingSlots("B") :
             content[pairedSlots'[Len(pairedSlots) + 1][2]].id <= content[s].id]_vars

\* The step is RouteQubits.run of channel c handling a port input.
RoutedOn(c) ==
  <<c, now>> \in arrival_plan /\ arrival_plan' = arrival_plan \ {<<c, now>>}

\* The positions of channel c that are not used.
UnusedSlots(c) == {s \in Range(SlotsOf(c)) : content[s] = EmptyPos}

\* C29: in the queue-based variant, RouteQubits of a channel with an unused
\* position puts the arriving qubit on the lowest unused position of the
\* channel, signals that position and changes no other position; with no
\* unused position it changes no position and signals nothing.
C29_RouteToLowestUnused ==
  [][\A c \in Chan :
       RoutedOn(c) =>
          IF UnusedSlots(c) # {}
          THEN \E u \in UnusedSlots(c) :
                  /\ \A s \in UnusedSlots(c) : u <= s
                  /\ content'[u] = Raw(arrivals')
                  /\ success_result'[c] = u
                  /\ \A s \in AllSlots \ {u} : content'[s] = content[s]
                  /\ \A o \in Chan \ {c} : success_result'[o] = success_result[o]
          ELSE content' = content /\ success_result' = success_result]_vars

\* Channel A of the queue-based variant is full, a qubit sits on its second
\* position, and one more qubit has arrived than is stored or was measured:
\* an arrival has been discarded.
C29_Witness ==
  /\ Len(slots_A) = 2
  /\ UnusedSlots("A") = {}
  /\ content[slots_A[2]].kind = "raw"
  /\ arrivals > Cardinality({s \in AllSlots : content[s] # EmptyPos})
                  + 2 * Len(results)

\* C30: in the queue-based variant without memory, a measurement result is
\* emitted only in an instant in which a qubit reaches each of the two ports.
C30_MeasuresOnlySimultaneousInputs ==
  [][Len(results') > Len(results) => arrivals' = arrivals + 2]_vars

\* C33: every reset_timer lies in 0..reset_duration_cycles, every trigger
\* timer in 0..reset_period_cycles, and a slot whose reset_timer differs from
\* reset_duration_cycles is in RESET.
C33_TimersInRange ==
  \A s \in AllSlots :
     /\ reset_timer[s] \in 0..reset_duration_cycles
     /\ reset_trigger_timer[s] \in 0..reset_period_cycles
     /\ reset_timer[s] # reset_duration_cycles => status[s] = "RESET"

\* The payloads of all emitted pairs, as <<result index, side>> |-> payload.
PairedPayloads ==
  {<<i, k>> : i \in 1..Len(results), k \in 1..2}

\* C34: pair conservation.  Every emitted pair holds one payload taken from
\* a slot of channel A and one taken from a slot of channel B, no payload is
\* in two pairs, a pair is emitted only by a step that takes a FILLED slot of
\* each channel out of FILLED, and a slot becomes FILLED only by a store of
\* its own channel's router; so the pairs emitted never outnumber the stores
\* of either channel.
C34_PairConservation ==
  /\ [](/\ \A p \in PairedPayloads : results[p[1]].qubits[p[2]].id # NoQubit
        /\ \A p, q \in PairedPayloads :
              p # q => results[p[1]].qubits[p[2]].id # results[q[1]].qubits[q[2]].id
        /\ \A i \in 1..Len(pairedSlots) :
              /\ pairedSlots[i][1] \in Range(slots_A)
              /\ pairedSlots[i][2] \in Range(slots_B))
  /\ [][/\ Len(results') <= Len(results) + 1
        /\ Len(results') = Len(results) + 1 =>
              \E a \in Range(slots_A), b \in Range(slots_B) :
                 /\ status[a] = "FILLED" /\ status'[a] # "FILLED"
                 /\ status[b] = "FILLED" /\ status'[b] # "FILLED"
                 /\ results'[Len(results')].qubits = <<content[a], content[b]>>
        /\ \A c \in Chan : \A s \in Range(SlotsOf(c)) :
              status[s] # "FILLED" /\ status'[s] = "FILLED" =>
                 /\ pc[c] = "program" /\ target_slot[c] = s
                 /\ c \in stored_signal']_vars

\* Two pairs have been emitted.
C34_Witness ==
  /\ Len(results) = 2
  /\ \A p \in PairedPayloads : results[p[1]].qubits[p[2]].id # NoQubit

\* C35: a store on a channel leaves the channel without a TARGET slot, and
\* only a lifecycle tick gives a channel a TARGET slot; so no arrival between
\* the store and the next tick starts a storage operation.
C35_OneStorePerTick ==
  [][\A c \in Chan :
       /\ RouterFinishes(c) => TargetSlots(c)' = {}
       /\ ~TickStep => TargetSlots(c)' \subseteq TargetSlots(c)
       /\ ArrivalOn(c) /\ TargetSlots(c) = {} => pc'[c] = pc[c]]_vars

\* The slots of channel c that are not in RESET.
LiveSlots(c) == {s \in Range(SlotsOf(c)) : status[s] # "RESET"}

\* C36: while no pair has been emitted, the slots of a channel that are not
\* in RESET have equal trigger timers, a tick that forces one slot of a
\* channel to RESET forces all of them, and a channel with a slot in RESET
\* has neither a TARGET nor an IDLE slot.
C36_ChannelResetsTogether ==
  /\ [](Len(results) = 0 =>
          \A c \in Chan :
             /\ \A s, t \in LiveSlots(c) :
                   reset_trigger_timer[s] = reset_trigger_timer[t]
             /\ LiveSlots(c) # Range(SlotsOf(c)) =>
                   \A s \in Range(SlotsOf(c)) : status[s] \notin {"TARGET", "IDLE"})
  /\ [][Len(results') = 0 /\ TickStep =>
          \A c \in Chan :
             LiveSlots(c)' # LiveSlots(c) /\ LiveSlots(c) # {} => LiveSlots(c)' = {}]_vars

\* C37: a router starts a storage operation only in the step in which the
\* payload it stores arrived; a payload that an earlier arrival left on the
\* staging position is never picked up by a later wake-up.
C37_StoresOnlyFreshArrivals ==
  [][\A c \in Chan :
       pc[c] = "await" /\ pc'[c] \in {"program", "busy_wait"} =>
          ArrivalOn(c)]_vars

\* The positions of the queue-based variant that hold a qubit.
UsedSlots == {s \in AllSlots : content[s] # EmptyPos}

\* C38: in the queue-based variant every used position is recorded: it is in
\* the pending list of its channel (the last entries being the ones under
\* measurement) or it is the result of a SUCCESS signal the repeater has yet
\* to handle.
C38_NoStoredSlotLost ==
  \A c \in Chan :
     UsedSlots \cap Range(SlotsOf(c)) \subseteq PendingSlots(c)

\* The step is the source receiving a trigger.
TriggerStep == trigger_count' = trigger_count + 1

\* The step is a trigger of the kind the source's mode asks for.
TriggerInMode ==
  \/ qs_status = "EXTERNAL" /\ \E d \in PrepDelays : external_tick_handler(d)
  \/ qs_status = "INTERNAL" /\ \E d \in PrepDelays : internal_tick_handler(d)

\* The scheduled pulses whose emission time lies ahead.
InGeneration == {i \in 1..Len(pulse_events) : pulse_events[i] > sim_time}

\* C31: the source never has two pulses in generation; a trigger that a
\* source which is not OFF receives strictly before the emission time of the
\* current pulse raises QSourceTriggerError and schedules nothing, and a
\* trigger of the right kind received exactly at the emission time schedules
\* a new pulse.
C31_OnePulseInGeneration ==
  /\ [](Cardinality(InGeneration) <= 1)
  /\ [][/\ TriggerStep /\ qs_status # "OFF" /\ sim_time < busy_until =>
             trigger_error' /\ pulse_events' = pulse_events
        /\ TriggerInMode /\ sim_time = busy_until =>
             ~trigger_error' /\ Len(pulse_events') = Len(pulse_events) + 1]_vars

\* C32: a message on the trigger port of a source that is not in EXTERNAL
\* mode, and a tick of the internal clock of a source that is not in INTERNAL
\* mode, raises QSourceTriggerError; a source that is OFF schedules no pulse
\* when triggered and emits none.
C32_TriggerModeChecked ==
  [][/\ (\E d \in PrepDelays : external_tick_handler(d)) /\ qs_status # "EXTERNAL"
          => trigger_error'
     /\ (\E d \in PrepDelays : internal_tick_handler(d)) /\ qs_status # "INTERNAL"
          => trigger_error'
     /\ qs_status = "OFF" /\ qs_status' = "OFF"
          => pulse_count' = pulse_count /\ emitted' = emitted]_vars

====
